---- MODULE Spec2Model ----
(***************************************************************************)
(* Model of src/objects.py (AilisaD/queuing_systems): the polyclinic       *)
(* queueing network written on top of the simpy discrete-event kernel.     *)
(*                                                                         *)
(* objects.py imports simpy (line 3) and uses simpy.Environment,           *)
(* simpy.Resource, Resource.request()/count, env.timeout() and env.now.    *)
(* Their behaviour is modelled as simpy 4 implements it:                   *)
(*   - the event queue is a heap of (time, priority, eid, event); a        *)
(*     process start (Initialize) is URGENT, every other event NORMAL;     *)
(*   - Resource.request() appends the request to put_queue and then tries  *)
(*     the HEAD of put_queue (_trigger_put / _do_put);                     *)
(*   - leaving the with block calls Resource.release(), which removes the  *)
(*     request from users at once and schedules a Release event; the       *)
(*     queue head is granted when that event is processed (_trigger_put    *)
(*     is its callback) or when the next request() is issued.              *)
(* One action of the model is one step of env.step(): the earliest event   *)
(* is popped and the process it resumes runs to its next yield.            *)
(*                                                                         *)
(* Time is counted in ticks, TicksPerUnit ticks to one time unit.          *)
(***************************************************************************)
EXTENDS Integers, Sequences, FiniteSets

VARIABLES now, queue, eid, users, put_queue, stat,
          pc, time, waiting_time, index, visits, exit, all_created,
          reqlog, grantlog, written, executed, cur, passed, scenario,
          run, sampled, earlier, call, observed

vars == <<now, queue, eid, users, put_queue, stat,
          pc, time, waiting_time, index, visits, exit, all_created,
          reqlog, grantlog, written, executed, cur, passed, scenario,
          run, sampled, earlier, call, observed>>

(* ------------------------------ bounds --------------------------------- *)

\* Patients spawned before the arrival loop stops (scenario "mix").
MaxPatients == 3
\* Patients beyond therapists_number spawned in scenario "burst".
MaxExtra == 1
\* Ticks in one time unit (the "1" of add_visit is TicksPerUnit ticks).
TicksPerUnit == 2
\* Sampled service durations are 1..MaxDur ticks.
MaxDur == 2
\* Sampled inter-arrival durations are 0..MaxGap ticks.
MaxGap == 1
\* The specialist index is drawn from 0..MaxIndex (scenario "loop").
MaxIndex == 1
\* Specialist visits of one patient (scenario "loop").
MaxDoctorVisits == 2
\* Simulations run one after the other in one interpreter (scenario "rerun").
MaxRuns == 2
\* Patients of each simulation in scenario "rerun".
MaxRerunPatients == 2
\* Calls of add_visit made on one Patient by PatientSpec.
MaxCalls == 3
\* Mutations of one StatisticValue made by StatisticSpec.
MaxWrites == 3
\* Calls of history() between two mutations in StatisticSpec.
MaxReads == 2
\* The clock of StatisticSpec runs from 0 to MaxNow.
MaxNow == 2

(* -------------------------- program constants -------------------------- *)

therapists_number == 8
doctors_number == 10

URGENT == 0
NORMAL == 1

Min(a, b) == IF a < b THEN a ELSE b
Max(a, b) == IF a > b THEN a ELSE b

(* The sampled inputs, by scenario.                                        *)
(*   "mix":   MaxPatients patients, arrival times and durations open, a     *)
(*            therapist visit or not, then one visit to specialist 0.       *)
(*   "loop":  MaxPatients - 1 patients arrive together and go straight to   *)
(*            the specialists, any of 0..MaxIndex, up to MaxDoctorVisits    *)
(*            visits each.                                                  *)
(*   "burst": therapists_number + MaxExtra patients arrive together,        *)
(*            registration takes no time and all of them see a therapist,   *)
(*            so that the therapist pool fills up.                          *)
(*   "rerun": MaxRuns simulations are run one after the other, each with    *)
(*            MaxRerunPatients patients who arrive together and make one    *)
(*            visit to specialist 0.                                        *)
(*   "pair":  as "mix" with MaxPatients - 1 patients who arrive together.   *)
Scenarios == {"mix", "loop", "burst", "rerun", "pair"}
spawned(sc) ==
    IF sc = "mix" THEN MaxPatients
    ELSE IF sc \in {"loop", "pair"} THEN MaxPatients - 1
    ELSE IF sc = "rerun" THEN MaxRerunPatients
    ELSE therapists_number + MaxExtra
Patients == 1..Max(Max(MaxPatients, therapists_number + MaxExtra), MaxRuns * MaxRerunPatients)
Durations == 1..MaxDur
\* new_patient_timeout
Gaps(sc) == IF sc = "mix" THEN 0..MaxGap ELSE {0}
\* registry_process_time
registry_durations(sc) == IF sc = "burst" THEN {0} ELSE Durations

registry == <<"registry", 0>>
therapists == <<"therapists", 0>>
doctors(i) == <<"doctor", i>>

\* randint(0, doctors_number - 1), or the index the caller gives
DoctorIndexes(sc) == IF sc = "loop" THEN 0..Min(MaxIndex, doctors_number - 1) ELSE {0}

Resources == {registry, therapists} \cup {doctors(i) : i \in 0..(doctors_number - 1)}

\* Mutant: every Resource is built with capacity=therapists_number.
capacity_pool(r) == therapists_number

\* simpy.Resource(env) has capacity 1; the therapists get therapists_number.
capacity(r) == IF r = therapists THEN therapists_number ELSE 1

\* Resource.count
count(w, r) == Len(w.users[r])

(* ----------------------------- StatisticValue --------------------------- *)

\* Mutant: the assignment always adds an item, also for a key already there.
DictSet_append(h, key, value) == Append(h, <<key, value>>)

\* self._history[key] = value on a dict kept as its items in insertion order.
DictSet(h, key, value) ==
    IF \E i \in 1..Len(h) : h[i][1] = key
    THEN [i \in 1..Len(h) |-> IF h[i][1] = key THEN <<key, value>> ELSE h[i]]
    ELSE Append(h, <<key, value>>)

StatisticValue_init == [value |-> 0, max_value |-> 0, history |-> <<>>]

\* Mutant: __iadd__ does not update _max_value.
iadd_keeps_max(s, other, t) ==
    LET v == s.value + other
    IN [value |-> v, history |-> DictSet(s.history, t, v), max_value |-> s.max_value]

iadd(s, other, t) ==
    LET v == s.value + other
    IN [value |-> v, history |-> DictSet(s.history, t, v), max_value |-> Max(v, s.max_value)]

\* Mutant: __isub__ sets _max_value to the new value.
isub_lowers_max(s, other, t) ==
    LET v == s.value - other
    IN [value |-> v, history |-> DictSet(s.history, t, v), max_value |-> v]

isub(s, other, t) ==
    LET v == s.value - other
    IN [value |-> v, history |-> DictSet(s.history, t, v), max_value |-> s.max_value]

\* sorted(items, key=lambda x: x[0]): a stable insertion sort by time.
RECURSIVE InsertSorted(_, _)
InsertSorted(s, x) ==
    IF s = <<>> THEN <<x>>
    ELSE IF x[1] < Head(s)[1] THEN <<x>> \o s
    ELSE <<Head(s)>> \o InsertSorted(Tail(s), x)

RECURSIVE history(_)
history(h) ==
    IF h = <<>> THEN <<>>
    ELSE InsertSorted(history(SubSeq(h, 1, Len(h) - 1)), h[Len(h)])

\* Mutant: reading the history takes the oldest entry out of the dict.
history_property_pops(s) ==
    [out |-> history(s.history),
     self |-> [s EXCEPT !.history = IF @ = <<>> THEN @ ELSE Tail(@)]]

\* The property StatisticValue.history read on s: the list it returns and
\* the StatisticValue after the read (sorted() builds a new list).
history_property(s) == [out |-> history(s.history), self |-> s]

(* ------------------------------- Patient -------------------------------- *)

\* Mutant: the floor also takes a duration of exactly one unit.
floor_at_most_unit(x) == IF x <= TicksPerUnit THEN 0 ELSE x

\* 0 if x < 1 else x
floor_below_unit(x) == IF x < TicksPerUnit THEN 0 ELSE x

\* Mutant: the type is checked after the record has been appended.
add_visit_checks_late(vs, type_, wt, st) ==
    [visits |-> Append(vs, [type |-> type_,
                            waiting_time |-> floor_below_unit(wt),
                            service_time |-> floor_below_unit(st)]),
     error |-> IF type_ \notin {"therapist", "doctor"} THEN "ValueError" ELSE "none"]

\* Patient.add_visit on the visits vs: the visits after the call and the
\* exception it raised, if any.
add_visit(vs, type_, wt, st) ==
    IF type_ \notin {"therapist", "doctor"}
    THEN [visits |-> vs, error |-> "ValueError"]
    ELSE [visits |-> Append(vs, [type |-> type_,
                                 waiting_time |-> floor_below_unit(wt),
                                 service_time |-> floor_below_unit(st)]),
          error |-> "none"]

\* What the last call of add_visit was given and how it ended; n counts the
\* calls.
Called(type_, r) == [n |-> call.n + 1, type |-> type_, error |-> r.error]

\* Patient.__init__: the new Patient is appended to the class-level list
\* Patient.all_created.  id is the identity of the object, run the
\* simulation that created it.
Patient_init(ac, index_, enter, rn) ==
    Append(ac, [id |-> Len(ac) + 1, run |-> rn, index |-> index_, enter |-> enter])

\* The patients of all_created that simulation rn created.
created(rn) == SelectSeq(all_created, LAMBDA c : c.run = rn)

(* ------------------------- simpy kernel (env) --------------------------- *)

NoRes == <<"none", 0>>

\* The part of the state the kernel and the resources work on, as one value.
World ==
    [now |-> now, queue |-> queue, eid |-> eid, users |-> users,
     put_queue |-> put_queue, stat |-> stat,
     reqlog |-> reqlog, grantlog |-> grantlog, written |-> written,
     sampled |-> sampled]

\* A value drawn from a sampler (self.r, registry_time, the arrival sampler)
\* is noted in the order of the draws.
draw(w, sampler, x) == [w EXCEPT !.sampled = Append(@, <<sampler, x>>)]

\* Mutant: among events of one time and priority the newest goes first.
Before_newest_first(e, f) ==
    \/ e.time < f.time
    \/ e.time = f.time /\ e.priority < f.priority
    \/ e.time = f.time /\ e.priority = f.priority /\ e.eid > f.eid

\* heapq order of Environment._queue: (time, priority, eid).
Before(e, f) ==
    \/ e.time < f.time
    \/ e.time = f.time /\ e.priority < f.priority
    \/ e.time = f.time /\ e.priority = f.priority /\ e.eid < f.eid

Earliest(q) == CHOOSE e \in q : \A f \in q \ {e} : Before(e, f)

\* Environment.schedule(event, priority, delay)
schedule(w, priority, delay, kind, p, r) ==
    [w EXCEPT !.queue = @ \cup {[time |-> w.now + delay, priority |-> priority,
                                 eid |-> w.eid, kind |-> kind, proc |-> p, res |-> r]},
              !.eid = @ + 1]

\* Environment.step(): pop the earliest event and set now to its time.
step(w, e) == [w EXCEPT !.now = e.time, !.queue = @ \ {e}]

\* env.timeout(delay) yielded by process p
timeout(w, delay, p) == schedule(w, NORMAL, delay, "timeout", p, NoRes)

\* env.process(generator): the Initialize event of the new process
process(w, p) == schedule(w, URGENT, 0, "init", p, NoRes)

(* ---------------------------- simpy.Resource ---------------------------- *)

Remove(s, x) ==
    LET RECURSIVE rm(_)
        rm(t) == IF t = <<>> THEN <<>>
                 ELSE IF Head(t) = x THEN Tail(t)
                 ELSE <<Head(t)>> \o rm(Tail(t))
    IN rm(s)

\* Resource._do_put: grant when a slot is free; the request event succeeds.
\* (_trigger_put then drops the triggered request from put_queue.)  by is
\* the process whose request() call runs this, 0 for a Release event.
do_put(w, r, p, by) ==
    IF Len(w.users[r]) < capacity(r)
    THEN schedule([w EXCEPT !.users[r] = Append(@, p),
                            !.put_queue[r] = Remove(@, p),
                            !.grantlog[r] = Append(@, [p |-> p, at |-> w.now,
                                                       imm |-> by = p])],
                  NORMAL, 0, "request", p, r)
    ELSE w

\* Mutant: the newest request of the put_queue is tried instead of its head.
trigger_put_last(w, r, by) ==
    IF w.put_queue[r] = <<>> THEN w
    ELSE do_put(w, r, w.put_queue[r][Len(w.put_queue[r])], by)

\* Mutant: only a request() tries the head of put_queue, a Release event
\* does not.
trigger_put_by_request(w, r, by) ==
    IF w.put_queue[r] = <<>> \/ by = 0 THEN w ELSE do_put(w, r, Head(w.put_queue[r]), by)

\* BaseResource._trigger_put: Resource._do_put returns None, so the loop
\* stops after the head of put_queue.
trigger_put(w, r, by) ==
    IF w.put_queue[r] = <<>> THEN w ELSE do_put(w, r, Head(w.put_queue[r]), by)

\* Resource.request(): Put.__init__ appends to put_queue, then _trigger_put.
request(w, r, p) ==
    trigger_put([w EXCEPT !.put_queue[r] = Append(@, p),
                          !.reqlog[r] = Append(@, [p |-> p, at |-> w.now])], r, p)

\* Mutant: the Release event is scheduled but the slot stays held.
release_keeps_user(w, r, p) == schedule(w, NORMAL, 0, "release", 0, r)

\* Mutant: the slot is freed but no Release event is scheduled.
release_unscheduled(w, r, p) == [w EXCEPT !.users[r] = Remove(@, p)]

\* Request.__exit__ -> Resource.release(): Release.__init__ runs _trigger_get,
\* whose _do_get removes the request from users and succeeds the Release
\* event; _trigger_put is that event's callback.
release(w, r, p) ==
    schedule([w EXCEPT !.users[r] = Remove(@, p)], NORMAL, 0, "release", 0, r)

\* self.queue_at_X += 1 / -= 1 at env.now
stat_iadd(w, r) ==
    LET s == iadd(w.stat[r], 1, w.now)
    IN [w EXCEPT !.stat[r] = s, !.written[r] = Append(@, <<w.now, s.value>>)]

stat_isub(w, r) ==
    LET s == isub(w.stat[r], 1, w.now)
    IN [w EXCEPT !.stat[r] = s, !.written[r] = Append(@, <<w.now, s.value>>)]

\* The kernel part of the next state.
Commit(w, e) ==
    /\ now' = w.now
    /\ queue' = w.queue
    /\ eid' = w.eid
    /\ users' = w.users
    /\ put_queue' = w.put_queue
    /\ stat' = w.stat
    /\ reqlog' = w.reqlog
    /\ grantlog' = w.grantlog
    /\ written' = w.written
    /\ executed' = Append(executed, <<e.time, e.priority, e.eid>>)
    /\ sampled' = w.sampled
    /\ UNCHANGED <<scenario, run, earlier, observed>>

\* The event env.step() processes next resumes process p of kind k.
Resumes(e, k, p) == queue # {} /\ e = Earliest(queue) /\ e.kind = k /\ e.proc = p

(* ------------------------- Polyclinic.visit_* --------------------------- *)

\* Mutant: the time of the request is not subtracted.
measured_from_zero(t_now, t) == t_now

\* self.env.now - time
measured(t_now, t) == t_now - t

\* What a request leaves behind for the claims: the resource, the time and
\* the position of the request, and whether request() itself granted it.
Requested(w0, w1, r, p) ==
    [res |-> r, req |-> w0.now, seq |-> Len(w1.reqlog[r]),
     imm |-> /\ Len(w1.grantlog[r]) > Len(w0.grantlog[r])
             /\ w1.grantlog[r][Len(w1.grantlog[r])].p = p]

\* visit_registry up to its first yield (lines 145-153): the request is
\* made first, registry.count is read after it.
visit_registry_request(w, p) ==
    LET w1 == request(w, registry, p)
    IN IF count(w1, registry) > 0
       THEN [w |-> stat_iadd(w1, registry), pc |-> "reg_wait", time |-> time[p]]
       ELSE [w |-> w1, pc |-> "reg_yield", time |-> time[p]]

\* visit_therapist up to its first yield (lines 159-170).
visit_therapist_request(w, p) ==
    LET w1 == request(w, therapists, p)
    IN IF count(w1, therapists) > 0
       THEN [w |-> stat_iadd(w1, therapists), pc |-> "ther_wait", time |-> w1.now]
       ELSE [w |-> w1, pc |-> "ther_yield", time |-> time[p]]

\* Mutant: the time of the request is not taken before the wait.
visit_doctor_request_stale(w, p, i) ==
    LET w1 == request(w, doctors(i), p)
    IN IF count(w1, doctors(i)) > 0
       THEN [w |-> stat_iadd(w1, doctors(i)), pc |-> "doc_wait", time |-> time[p]]
       ELSE [w |-> w1, pc |-> "doc_yield", time |-> time[p]]

\* visit_doctor up to its first yield (lines 188-201).
visit_doctor_request(w, p, i) ==
    LET w1 == request(w, doctors(i), p)
    IN IF count(w1, doctors(i)) > 0
       THEN [w |-> stat_iadd(w1, doctors(i)), pc |-> "doc_wait", time |-> w1.now]
       ELSE [w |-> w1, pc |-> "doc_yield", time |-> time[p]]

(* ------------------- patient flow and arrivals (spec 4.5, 4.6) ---------- *)

\* The stages a flow may enter next.
after_registry(sc) ==
    IF sc \in {"mix", "pair"} THEN {"therapist", "doctor"}
    ELSE IF sc \in {"loop", "rerun"} THEN {"doctor"}
    ELSE {"therapist"}
after_therapist(sc) == IF sc = "burst" THEN {"departed"} ELSE {"doctor"}
doctor_visits(p) == Cardinality({k \in 1..Len(passed[p]) : passed[p][k].res[1] = "doctor"})
after_doctor(sc, p) ==
    {"departed"} \cup
    (IF sc = "loop" /\ doctor_visits(p) + 1 < MaxDoctorVisits THEN {"doctor"} ELSE {})

\* Process p goes on to stage s (specialist i) in the same run of its body.
Enter(w0, e, p, s, i) ==
    LET w == draw(w0, s, IF s = "doctor" THEN i ELSE 0)
        r == IF s = "therapist" THEN visit_therapist_request(w, p)
             ELSE IF s = "doctor" THEN visit_doctor_request(w, p, i)
             ELSE [w |-> w, pc |-> "done", time |-> time[p]]
        res == IF s = "therapist" THEN therapists ELSE doctors(i)
    IN \* (the event of a terminated process has no callback and is left out)
       /\ Commit(r.w, e)
       /\ pc' = [pc EXCEPT ![p] = r.pc]
       /\ time' = [time EXCEPT ![p] = r.time]
       /\ index' = IF s = "doctor" THEN [index EXCEPT ![p] = i] ELSE index
       /\ exit' = IF s = "departed" THEN [exit EXCEPT ![p] = w.now] ELSE exit
       /\ cur' = IF s = "departed" THEN cur
                 ELSE [cur EXCEPT ![p] = Requested(w, r.w, res, p)]

\* The arrival process starts: it samples the first inter-arrival duration.
arrivals_start ==
    /\ queue # {}
    /\ LET e == Earliest(queue)
       IN /\ e.kind = "arrival_init"
          /\ \E gap \in Gaps(scenario) :
                Commit(schedule(draw(step(World, e), "new_patient_timeout", gap), NORMAL, gap, "arrival", 0, NoRes), e)
    /\ UNCHANGED <<pc, time, waiting_time, index, visits, exit, all_created, cur, passed, call>>

\* An arrival: Patient(index, enter=now) is created with the next index
\* of this simulation and its flow spawned; the loop goes on until the
\* patients of the scenario are spawned.
arrive ==
    /\ queue # {}
    /\ LET e == Earliest(queue)
           p == Len(all_created) + 1
           n == Len(created(run)) + 1
           w == process(step(World, e), p)
       IN /\ e.kind = "arrival"
          /\ all_created' = Patient_init(all_created, n, e.time, run)
          /\ pc' = [pc EXCEPT ![p] = "start"]
          /\ IF n < spawned(scenario)
             THEN \E gap \in Gaps(scenario) :
                     Commit(schedule(draw(w, "new_patient_timeout", gap), NORMAL, gap, "arrival", 0, NoRes), e)
             ELSE Commit(w, e)
    /\ UNCHANGED <<time, waiting_time, index, visits, exit, cur, passed, call>>

(* ------------------------------ the steps ------------------------------- *)

\* The flow of p starts: visit_registry runs to its first yield.
visit_registry_start(p) ==
    LET e == Earliest(queue)
    IN /\ Resumes(e, "init", p)
       /\ pc[p] = "start"
       /\ LET r == visit_registry_request(step(World, e), p)
          IN /\ Commit(r.w, e)
             /\ pc' = [pc EXCEPT ![p] = r.pc]
             /\ cur' = [cur EXCEPT ![p] = Requested(step(World, e), r.w, registry, p)]
       /\ UNCHANGED <<time, waiting_time, index, visits, exit, all_created, passed, call>>

\* The registry request of p is processed: lines 150 and 155.
visit_registry_granted(p) ==
    LET e == Earliest(queue)
    IN /\ Resumes(e, "request", p)
       /\ pc[p] \in {"reg_wait", "reg_yield"}
       /\ LET w0 == step(World, e)
              w1 == IF pc[p] = "reg_wait" THEN stat_isub(w0, registry) ELSE w0
          IN \E d \in registry_durations(scenario) : Commit(timeout(draw(w1, "registry_process_time", d), d, p), e)
       /\ pc' = [pc EXCEPT ![p] = "reg_serv"]
       /\ UNCHANGED <<time, waiting_time, index, visits, exit, all_created, cur, passed, call>>

\* The registration timeout of p fires: the with block is left (release)
\* and the flow goes on to the therapist or to a specialist.
visit_registry_done(p) ==
    LET e == Earliest(queue)
    IN /\ Resumes(e, "timeout", p)
       /\ pc[p] = "reg_serv"
       /\ \E s \in after_registry(scenario), i \in DoctorIndexes(scenario) :
             Enter(release(step(World, e), registry, p), e, p, s, i)
       /\ UNCHANGED <<waiting_time, visits, all_created, passed, call>>

\* The therapist request of p is processed: lines 166-167 or 171, 173-174.
visit_therapist_granted(p) ==
    LET e == Earliest(queue)
    IN /\ Resumes(e, "request", p)
       /\ pc[p] \in {"ther_wait", "ther_yield"}
       /\ LET w0 == step(World, e)
              w1 == IF pc[p] = "ther_wait" THEN stat_isub(w0, therapists) ELSE w0
          IN /\ waiting_time' = [waiting_time EXCEPT ![p] =
                    IF pc[p] = "ther_wait" THEN measured(w0.now, time[p]) ELSE 0]
             /\ time' = [time EXCEPT ![p] = w0.now]
             /\ \E d \in Durations : Commit(timeout(draw(w1, "therapist_process_time", d), d, p), e)
       /\ pc' = [pc EXCEPT ![p] = "ther_serv"]
       /\ UNCHANGED <<index, visits, exit, all_created, cur, passed, call>>

\* The therapist timeout of p fires: lines 175-181, then the release.
visit_therapist_done(p) ==
    LET e == Earliest(queue)
    IN /\ Resumes(e, "timeout", p)
       /\ pc[p] = "ther_serv"
       /\ LET w0 == step(World, e)
              service_time == measured(w0.now, time[p])
              r == add_visit(visits[p], "therapist", waiting_time[p], service_time)
          IN /\ visits' = [visits EXCEPT ![p] = r.visits]
             /\ call' = Called("therapist", r)
             /\ passed' = [passed EXCEPT ![p] = Append(@,
                    [res |-> cur[p].res, req |-> cur[p].req, seq |-> cur[p].seq,
                     imm |-> cur[p].imm, wt |-> waiting_time[p], st |-> service_time])]
             /\ \E s \in after_therapist(scenario), i \in DoctorIndexes(scenario) :
                   Enter(release(w0, therapists, p), e, p, s, i)
       /\ UNCHANGED <<waiting_time, all_created>>

\* The specialist request of p is processed: lines 197-198 or 202, 204-205.
visit_doctor_granted(p) ==
    LET e == Earliest(queue)
    IN /\ Resumes(e, "request", p)
       /\ pc[p] \in {"doc_wait", "doc_yield"}
       /\ LET w0 == step(World, e)
              w1 == IF pc[p] = "doc_wait" THEN stat_isub(w0, doctors(index[p])) ELSE w0
          IN /\ waiting_time' = [waiting_time EXCEPT ![p] =
                    IF pc[p] = "doc_wait" THEN measured(w0.now, time[p]) ELSE 0]
             /\ time' = [time EXCEPT ![p] = w0.now]
             /\ \E d \in Durations : Commit(timeout(draw(w1, "doctor_process_time", d), d, p), e)
       /\ pc' = [pc EXCEPT ![p] = "doc_serv"]
       /\ UNCHANGED <<index, visits, exit, all_created, cur, passed, call>>

\* The specialist timeout of p fires: lines 206-212, then the release.
visit_doctor_done(p) ==
    LET e == Earliest(queue)
    IN /\ Resumes(e, "timeout", p)
       /\ pc[p] = "doc_serv"
       /\ LET w0 == step(World, e)
              service_time == measured(w0.now, time[p])
              r == add_visit(visits[p], "therapist", waiting_time[p], service_time)
          IN /\ visits' = [visits EXCEPT ![p] = r.visits]
             /\ call' = Called("therapist", r)
             /\ passed' = [passed EXCEPT ![p] = Append(@,
                    [res |-> cur[p].res, req |-> cur[p].req, seq |-> cur[p].seq,
                     imm |-> cur[p].imm, wt |-> waiting_time[p], st |-> service_time])]
             /\ \E s \in after_doctor(scenario, p), i \in DoctorIndexes(scenario) :
                   Enter(release(w0, doctors(index[p]), p), e, p, s, i)
       /\ UNCHANGED <<waiting_time, all_created>>

\* A Release event is processed: its callback _trigger_put tries the head
\* of the put_queue.
release_processed ==
    /\ queue # {}
    /\ LET e == Earliest(queue)
       IN /\ e.kind = "release"
          /\ Commit(trigger_put(step(World, e), e.res, 0), e)
    /\ UNCHANGED <<pc, time, waiting_time, index, visits, exit, all_created, cur, passed, call>>

\* Mutant: the new Polyclinic is given the Environment of the last one.
Polyclinic_init_env_given ==
    [now |-> now, queue |-> {}, eid |-> eid,
     users |-> [r \in Resources |-> <<>>],
     put_queue |-> [r \in Resources |-> <<>>],
     stat |-> [r \in Resources |-> StatisticValue_init],
     reqlog |-> [r \in Resources |-> <<>>],
     grantlog |-> [r \in Resources |-> <<>>],
     written |-> [r \in Resources |-> <<>>],
     sampled |-> <<>>]

\* Polyclinic(registry_time): a new Environment, new Resources, new
\* StatisticValues and a Random seeded anew.
Polyclinic_init ==
    [now |-> 0, queue |-> {}, eid |-> 0,
     users |-> [r \in Resources |-> <<>>],
     put_queue |-> [r \in Resources |-> <<>>],
     stat |-> [r \in Resources |-> StatisticValue_init],
     reqlog |-> [r \in Resources |-> <<>>],
     grantlog |-> [r \in Resources |-> <<>>],
     written |-> [r \in Resources |-> <<>>],
     sampled |-> <<>>]

\* What a simulation leaves behind: the values it drew, the Patient records
\* it created and the StatisticValues of its Polyclinic.
Outcome ==
    [sampled |-> sampled,
     patients |-> [k \in 1..Len(created(run)) |->
                     LET c == created(run)[k]
                     IN [index |-> c.index, enter |-> c.enter,
                         exit |-> exit[c.id], visits |-> visits[c.id]]],
     stat |-> [r \in Resources |->
                 [value |-> stat[r].value, max_value |-> stat[r].max_value,
                  history |-> history(stat[r].history)]]]

NoOutcome ==
    [sampled |-> <<>>, patients |-> <<>>,
     stat |-> [r \in Resources |-> [value |-> 0, max_value |-> 0, history |-> <<>>]]]

\* The simulation has run to its end (env.run() returned) and a further one
\* is set up in the same interpreter: a new Polyclinic and its arrival
\* process.  Patient.all_created and the Patient objects stay.
run_again ==
    /\ scenario = "rerun"
    /\ run < MaxRuns
    /\ queue = {}
    /\ LET w == schedule(Polyclinic_init, URGENT, 0, "arrival_init", 0, NoRes)
       IN /\ now' = w.now
          /\ queue' = w.queue
          /\ eid' = w.eid
          /\ users' = w.users
          /\ put_queue' = w.put_queue
          /\ stat' = w.stat
          /\ reqlog' = w.reqlog
          /\ grantlog' = w.grantlog
          /\ written' = w.written
          /\ sampled' = w.sampled
    /\ executed' = <<>>
    /\ run' = run + 1
    /\ earlier' = Outcome
    /\ UNCHANGED <<pc, time, waiting_time, index, visits, exit, all_created,
                   cur, passed, scenario, call, observed>>

NoRequest == [res |-> NoRes, req |-> 0, seq |-> 0, imm |-> FALSE]

Init ==
    /\ now = 0
    /\ queue = {[time |-> 0, priority |-> URGENT, eid |-> 0,
                 kind |-> "arrival_init", proc |-> 0, res |-> NoRes]}
    /\ eid = 1
    /\ users = [r \in Resources |-> <<>>]
    /\ put_queue = [r \in Resources |-> <<>>]
    /\ stat = [r \in Resources |-> StatisticValue_init]
    /\ pc = [p \in Patients |-> "new"]
    /\ time = [p \in Patients |-> 0]
    /\ waiting_time = [p \in Patients |-> 0]
    /\ index = [p \in Patients |-> 0]
    /\ visits = [p \in Patients |-> <<>>]
    /\ exit = [p \in Patients |-> -1]
    /\ all_created = <<>>
    /\ reqlog = [r \in Resources |-> <<>>]
    /\ grantlog = [r \in Resources |-> <<>>]
    /\ written = [r \in Resources |-> <<>>]
    /\ executed = <<>>
    /\ cur = [p \in Patients |-> NoRequest]
    /\ passed = [p \in Patients |-> <<>>]
    /\ scenario \in Scenarios
    /\ run = 1
    /\ sampled = <<>>
    /\ earlier = NoOutcome
    /\ call = [n |-> 0, type |-> "none", error |-> "none"]
    /\ observed = [out |-> <<>>, reads |-> 0]

\* One step of env.run().
Run ==
    \/ arrivals_start
    \/ arrive
    \/ \E p \in Patients : visit_registry_start(p)
    \/ \E p \in Patients : visit_registry_granted(p)
    \/ \E p \in Patients : visit_registry_done(p)
    \/ \E p \in Patients : visit_therapist_granted(p)
    \/ \E p \in Patients : visit_therapist_done(p)
    \/ \E p \in Patients : visit_doctor_granted(p)
    \/ \E p \in Patients : visit_doctor_done(p)
    \/ release_processed

Next == Run \/ run_again

Spec == Init /\ [][Next]_vars

\* env.run() of one simulation: the scheduler processes the next event as
\* long as there is one.
FairInit == Init /\ scenario = "pair"

FairSpec == FairInit /\ [][Run]_vars /\ WF_vars(Run)

(* --------------- Patient and StatisticValue called directly ------------- *)

\* The stage types a caller may pass to add_visit.
VisitTypes == {"therapist", "doctor", "registry", "Therapist"}

\* A Polyclinic has been constructed and nothing has run yet.
unit_Init == Init /\ scenario = "mix"

\* Patient(index=1, enter=now) is constructed.
unit_Patient ==
    /\ all_created = <<>>
    /\ all_created' = Patient_init(all_created, 1, now, run)
    /\ UNCHANGED <<now, queue, eid, users, put_queue, stat,
                   pc, time, waiting_time, index, visits, exit,
                   reqlog, grantlog, written, executed, cur, passed, scenario,
                   run, sampled, earlier, call, observed>>

\* patient.add_visit(type_, waiting_time, service_time) is called on the
\* Patient with identity p.
unit_add_visit(p, type_, wt, st) ==
    /\ p \in 1..Len(all_created)
    /\ call.n < MaxCalls
    /\ LET r == add_visit(visits[p], type_, wt, st)
       IN /\ visits' = [visits EXCEPT ![p] = r.visits]
          /\ call' = Called(type_, r)
    /\ UNCHANGED <<now, queue, eid, users, put_queue, stat,
                   pc, time, waiting_time, index, exit, all_created,
                   reqlog, grantlog, written, executed, cur, passed, scenario,
                   run, sampled, earlier, observed>>

PatientNext ==
    \/ unit_Patient
    \/ \E type_ \in VisitTypes, wt \in 0..TicksPerUnit, st \in 0..TicksPerUnit :
          unit_add_visit(1, type_, wt, st)

PatientSpec == unit_Init /\ [][PatientNext]_vars

\* queue_at_registry += 1 at env.now
unit_iadd ==
    /\ Len(written[registry]) < MaxWrites
    /\ LET w == stat_iadd(World, registry)
       IN stat' = w.stat /\ written' = w.written
    /\ observed' = [observed EXCEPT !.reads = 0]
    /\ UNCHANGED <<now, queue, eid, users, put_queue,
                   pc, time, waiting_time, index, visits, exit, all_created,
                   reqlog, grantlog, executed, cur, passed, scenario,
                   run, sampled, earlier, call>>

\* queue_at_registry -= 1 at env.now
unit_isub ==
    /\ Len(written[registry]) < MaxWrites
    /\ stat[registry].value > 0
    /\ LET w == stat_isub(World, registry)
       IN stat' = w.stat /\ written' = w.written
    /\ observed' = [observed EXCEPT !.reads = 0]
    /\ UNCHANGED <<now, queue, eid, users, put_queue,
                   pc, time, waiting_time, index, visits, exit, all_created,
                   reqlog, grantlog, executed, cur, passed, scenario,
                   run, sampled, earlier, call>>

\* queue_at_registry.history is read.
unit_history ==
    /\ observed.reads < MaxReads
    /\ LET h == history_property(stat[registry])
       IN /\ observed' = [out |-> h.out, reads |-> observed.reads + 1]
          /\ stat' = [stat EXCEPT ![registry] = h.self]
    /\ UNCHANGED <<now, queue, eid, users, put_queue,
                   pc, time, waiting_time, index, visits, exit, all_created,
                   reqlog, grantlog, written, executed, cur, passed, scenario,
                   run, sampled, earlier, call>>

\* The clock of the Environment moves on by one tick.
unit_tick ==
    /\ now < MaxNow
    /\ now' = now + 1
    /\ UNCHANGED <<queue, eid, users, put_queue, stat,
                   pc, time, waiting_time, index, visits, exit, all_created,
                   reqlog, grantlog, written, executed, cur, passed, scenario,
                   run, sampled, earlier, call, observed>>

StatisticNext == unit_iadd \/ unit_isub \/ unit_history \/ unit_tick

StatisticSpec == unit_Init /\ [][StatisticNext]_vars

(* ------------------------------- claims --------------------------------- *)

\* The capacities the specification gives: registry 1, therapists 8, each
\* specialist 1.
ClaimedCapacity(r) == IF r = therapists THEN 8 ELSE 1

\* C1: in every reachable state the number of held slots of every Resource
\* is at most the Resource's capacity.
C1_HeldWithinCapacity ==
    \A r \in Resources : Len(users[r]) <= ClaimedCapacity(r)

\* The therapist pool is full and a further request waits for it.
C1_Witness ==
    /\ Len(users[therapists]) = 8
    /\ put_queue[therapists] # <<>>

\* C2: grants follow the order of the requests on every Resource: the k-th
\* grant goes to the k-th request, so no later request overtakes an earlier
\* waiting one, and the requests still waiting are the rest, in order.
C2_GrantsAreFIFO ==
    \A r \in Resources :
        /\ Len(grantlog[r]) <= Len(reqlog[r])
        /\ \A k \in 1..Len(grantlog[r]) :
              /\ grantlog[r][k].p = reqlog[r][k].p
              /\ grantlog[r][k].at >= reqlog[r][k].at
        /\ \A j, k \in 1..Len(grantlog[r]) : j < k => grantlog[r][j].at <= grantlog[r][k].at
        /\ put_queue[r] = [k \in 1..(Len(reqlog[r]) - Len(grantlog[r])) |->
                              reqlog[r][Len(grantlog[r]) + k].p]

\* Two requests waited on the same Resource at the same time and both have
\* been granted.
C2_Witness ==
    \E r \in Resources : \E j, k \in 1..Len(grantlog[r]) :
        /\ j < k
        /\ ~grantlog[r][j].imm
        /\ ~grantlog[r][k].imm
        /\ reqlog[r][k].at < grantlog[r][j].at

\* C3: a visit whose request found a free slot and an empty wait queue (the
\* request() call itself granted it) is recorded with waiting time 0.
C3_ImmediateGrantWaitsZero ==
    \A p \in Patients : \A k \in 1..Len(passed[p]) :
        passed[p][k].imm => /\ passed[p][k].wt = 0
                            /\ visits[p][k].waiting_time = 0

\* A visit granted at once, requested after the start of the run, is recorded.
C3_Witness ==
    \E p \in Patients : \E k \in 1..Len(passed[p]) :
        /\ passed[p][k].imm
        /\ passed[p][k].req >= TicksPerUnit
        /\ Len(visits[p]) >= k

\* C4 (as claimed): a queue StatisticValue is touched only by requests that
\* have to wait: while every request on a Resource was granted at once, its
\* StatisticValue keeps value 0, maxValue 0 and an empty history.
C4_QueueCountsOnlyWaiting ==
    \A r \in Resources :
        (/\ put_queue[r] = <<>>
         /\ \A k \in 1..Len(grantlog[r]) : grantlog[r][k].imm)
        => stat[r] = StatisticValue_init

SetMax(S) == CHOOSE x \in S : \A y \in S : y <= x
Values(h) == {h[i][2] : i \in 1..Len(h)}
Keys(h) == {h[i][1] : i \in 1..Len(h)}

\* C5 (as claimed): maxValue equals the maximum value present in the history,
\* 0 for an empty history.
C5_MaxIsMaxOfHistory ==
    \A r \in Resources :
        stat[r].max_value = SetMax(Values(stat[r].history) \cup {0})

\* C5 (amended): maxValue equals the maximum value ever written to the
\* history, entries overwritten later at the same timestamp included (0 if
\* nothing was written), so it is at least every value present in the history.
C5_MaxIsMaxEverWritten ==
    \A r \in Resources :
        /\ stat[r].max_value = SetMax(Values(written[r]) \cup {0})
        /\ \A v \in Values(stat[r].history) : v <= stat[r].max_value

\* The peak of a StatisticValue is no longer in its history.
C5_Witness ==
    \E r \in Resources :
        /\ Len(stat[r].history) >= 2
        /\ stat[r].max_value > SetMax(Values(stat[r].history))

\* C6: on a capacity-1 Resource, when two flows of one simulation request
\* at the same simulated time, the first being granted by its request and
\* the second being the next request, the waiting time the second passes to
\* add_visit equals the first one's full service duration.
C6_SecondWaitsFirstService ==
    \A a, b \in Patients : \A j \in 1..Len(passed[a]) : \A k \in 1..Len(passed[b]) :
        (/\ a # b
         /\ all_created[a].run = all_created[b].run
         /\ passed[a][j].res = passed[b][k].res
         /\ passed[a][j].res # therapists
         /\ passed[a][j].req = passed[b][k].req
         /\ passed[a][j].imm
         /\ passed[b][k].seq = passed[a][j].seq + 1)
        => passed[b][k].wt = passed[a][j].st

\* Two such visits are recorded, the first with a service of a unit or more.
C6_Witness ==
    \E a, b \in Patients : \E j \in 1..Len(passed[a]) : \E k \in 1..Len(passed[b]) :
        /\ a # b
        /\ all_created[a].run = all_created[b].run
        /\ passed[a][j].res = passed[b][k].res
        /\ passed[a][j].res # therapists
        /\ passed[a][j].req = passed[b][k].req
        /\ passed[a][j].req > 0
        /\ passed[a][j].imm
        /\ passed[b][k].seq = passed[a][j].seq + 1
        /\ passed[a][j].st >= TicksPerUnit

FreeWhileWaiting(r) == Len(users[r]) < capacity(r) /\ put_queue[r] # <<>>

Floored(x) == x = 0 \/ x >= TicksPerUnit

\* C9: add_visit records a waiting or service time below one time unit as
\* 0 and a time of one unit or more unchanged; every VisitRecord holds times
\* that are 0 or at least one unit, never negative.
C9_BelowUnitRecordedAsZero ==
    \A p \in Patients :
        /\ Len(visits[p]) = Len(passed[p])
        /\ \A k \in 1..Len(visits[p]) :
              /\ passed[p][k].wt < TicksPerUnit => visits[p][k].waiting_time = 0
              /\ passed[p][k].wt >= TicksPerUnit => visits[p][k].waiting_time = passed[p][k].wt
              /\ passed[p][k].st < TicksPerUnit => visits[p][k].service_time = 0
              /\ passed[p][k].st >= TicksPerUnit => visits[p][k].service_time = passed[p][k].st
              /\ Floored(visits[p][k].waiting_time)
              /\ Floored(visits[p][k].service_time)

\* One patient has a wait below a unit recorded as 0 and a service of exactly
\* one unit recorded unchanged.
C9_Witness ==
    \E p \in Patients : \E k \in 1..Len(visits[p]) :
        /\ passed[p][k].wt > 0
        /\ passed[p][k].wt < TicksPerUnit
        /\ visits[p][k].waiting_time = 0
        /\ passed[p][k].st = TicksPerUnit
        /\ visits[p][k].service_time = TicksPerUnit

LastWritten(log, t) == log[SetMax({k \in 1..Len(log) : log[k][1] = t})][2]

\* C10: the history of a StatisticValue holds one entry for each timestamp
\* at which it was mutated and no other, the entry being the value after the
\* last mutation at that timestamp, and history() returns these entries
\* sorted strictly ascending by time.
C10_HistoryLastWriteWins ==
    \A r \in Resources :
        LET h == stat[r].history
            H == history(h)
        IN /\ \A j, k \in 1..Len(h) : j # k => h[j][1] # h[k][1]
           /\ Keys(h) = Keys(written[r])
           /\ \A k \in 1..Len(h) : h[k][2] = LastWritten(written[r], h[k][1])
           /\ Len(H) = Len(h)
           /\ {H[k] : k \in 1..Len(H)} = {h[k] : k \in 1..Len(h)}
           /\ \A j, k \in 1..Len(H) : j < k => H[j][1] < H[k][1]

\* A history with two timestamps, one of them written twice with different
\* values.
C10_Witness ==
    \E r \in Resources :
        /\ Len(stat[r].history) >= 2
        /\ \E j, k \in 1..Len(written[r]) :
              /\ j < k
              /\ written[r][j][1] = written[r][k][1]
              /\ written[r][j][2] # written[r][k][2]

TypeCount(vs, t) == Cardinality({k \in 1..Len(vs) : vs[k].type = t})

\* C11 (as claimed): a flow that passed the therapist ends with exactly one
\* VisitRecord of type Therapist, that record comes before every record of a
\* specialist visit, and the records visit_doctor wrote carry another stage
\* type than Therapist.
C11_OneTherapistRecordFirst ==
    \A p \in Patients :
        (/\ pc[p] = "done"
         /\ \E k \in 1..Len(passed[p]) : passed[p][k].res = therapists)
        => /\ TypeCount(visits[p], "therapist") = 1
           /\ \A j, k \in 1..Len(visits[p]) :
                 (passed[p][j].res = therapists /\ passed[p][k].res # therapists) => j < k
           /\ \A k \in 1..Len(visits[p]) :
                 passed[p][k].res # therapists => visits[p][k].type # "therapist"

\* C12 (as claimed): a flow that made exactly one specialist visit (no
\* continuation) ends with exactly one VisitRecord of type Specialist (the
\* 'doctor' of add_visit), one record for the one visit_doctor call.
C12_OneSpecialistRecord ==
    \A p \in Patients :
        (pc[p] = "done" /\ doctor_visits(p) = 1)
        => /\ Len(visits[p]) = Len(passed[p])
           /\ TypeCount(visits[p], "doctor") = 1

\* C13: a call of add_visit with a stage type other than 'therapist' and
\* 'doctor' ends with an error and leaves the visits of every patient as
\* they were: nothing is appended, the earlier records stay.
C13_UnknownTypeRejected ==
    [][(call'.n = call.n + 1 /\ call'.type \notin {"therapist", "doctor"})
          => (call'.error = "ValueError" /\ visits' = visits)]_vars

\* A call with an unknown type failed on a patient that holds records.
C13_Witness ==
    /\ call.error = "ValueError"
    /\ call.type \notin {"therapist", "doctor"}
    /\ \E p \in Patients : Len(visits[p]) >= 2

\* C16: a read of history changes neither value, max_value nor the stored
\* history, and a read that follows another read with no increment or
\* decrement in between returns the same ordered list.
C16_HistoryReadIsIdempotent ==
    [][(observed'.reads = observed.reads + 1)
          => /\ stat' = stat
             /\ observed.reads >= 1 => observed'.out = observed.out]_vars

\* The history was read twice in a row and holds two entries or more.
C16_Witness ==
    /\ observed.reads = 2
    /\ Len(observed.out) >= 2

\* C14: a simulation that has drawn the same values, in the same order, as
\* the simulation run before it ends with the same Patient records (index,
\* enter, exit, visits) and the same value, max_value and ordered history of
\* every StatisticValue.
C14_SameSamplesSameOutcome ==
    (run > 1 /\ queue = {} /\ sampled = earlier.sampled)
    => /\ Outcome.patients = earlier.patients
       /\ Outcome.stat = earlier.stat

\* A second simulation has ended on the samples of the first; one of its
\* patients had to wait and its registry queue counted two.
C14_Witness ==
    /\ run > 1
    /\ queue = {}
    /\ sampled = earlier.sampled
    /\ Len(earlier.patients) = MaxRerunPatients
    /\ \E k \in 1..Len(created(run)) :
          \E j \in 1..Len(passed[created(run)[k].id]) : passed[created(run)[k].id][j].wt > 0
    /\ stat[registry].max_value >= 2

\* C15 (as claimed): when a simulation has ended, the created Patients it
\* shows (Patient.all_created) are the patients that simulation created,
\* whatever other simulations were run.
C15_RunsAreIsolated ==
    queue = {} => \A k \in 1..Len(all_created) : all_created[k].run = run

\* C17 (as claimed): in every reachable state the value of the queue
\* StatisticValue of every Resource is the number of requests waiting in
\* the Resource's put_queue, hence 0 when nothing waits and never negative.
C17_ValueIsWaitingCount ==
    \A r \in Resources : stat[r].value = Len(put_queue[r])

\* The flows between the grant of their request on r and the end of their
\* service on r.
Holding(r) ==
    {p \in Patients :
        /\ pc[p] \notin {"new", "start", "done"}
        /\ cur[p].res = r
        /\ cur[p].seq <= Len(grantlog[r])
        /\ grantlog[r][cur[p].seq].p = p}

AllTerminated == queue = {} /\ \A p \in Patients : pc[p] \in {"new", "done"}

\* C18: in every reachable state the users of a Resource are the flows
\* between their grant and the end of their service, each once, so the held
\* count is their number, never negative, and 0 once all flows have ended.
C18_HeldAreTheServed ==
    \A r \in Resources :
        /\ {users[r][k] : k \in 1..Len(users[r])} = Holding(r)
        /\ Len(users[r]) = Cardinality(Holding(r))
        /\ AllTerminated => users[r] = <<>>

\* All flows have ended after the therapists were held by two flows at a
\* time and the registry was granted and released more than once.
C18_Witness ==
    /\ AllTerminated
    /\ Len(grantlog[registry]) >= 2
    /\ \E j, k \in 1..Len(grantlog[therapists]) : \E a, b \in Patients :
          /\ j < k
          /\ grantlog[therapists][k].p = b
          /\ grantlog[therapists][j].p = a
          /\ \E i \in 1..Len(passed[a]) :
                /\ passed[a][i].res = therapists
                /\ passed[a][i].req + passed[a][i].wt + passed[a][i].st > grantlog[therapists][k].at

\* C20: max_value of every StatisticValue is at least its value in every
\* reachable state, and no step of a simulation lowers it: a decrement
\* leaves it as it was.  (run changes when new StatisticValues are built.)
C20_MaxNeverDecreases ==
    /\ [](\A r \in Resources : stat[r].max_value >= stat[r].value)
    /\ [][run' = run =>
            \A r \in Resources :
                /\ stat'[r].max_value >= stat[r].max_value
                /\ stat'[r].value < stat[r].value =>
                      stat'[r].max_value = stat[r].max_value]_vars

\* A StatisticValue that reached 2 has been decremented back to 0.
C20_Witness ==
    \E r \in Resources :
        /\ stat[r].max_value >= 2
        /\ stat[r].value = 0
        /\ \E k \in 1..Len(written[r]) : written[r][k][2] = 2
        /\ written[r][Len(written[r])][2] = 0

Waits(p) == \E r \in Resources : \E k \in 1..Len(put_queue[r]) : put_queue[r][k] = p
Holds(p) == \E r \in Resources : \E k \in 1..Len(users[r]) : users[r][k] = p

\* The flows of the simulation FairSpec runs.
FairPatients == 1..spawned("pair")

\* C19: while the scheduler keeps processing events, a request that waits
\* is granted, every flow that has started runs through its services to its
\* end (where it holds nothing), and no state has a waiting request and no
\* pending event.
C19_EveryRequestServed ==
    /\ []((\E r \in Resources : put_queue[r] # <<>>) => queue # {})
    /\ \A p \in FairPatients : Waits(p) ~> Holds(p)
    /\ \A p \in FairPatients :
          (pc[p] \notin {"new", "done"}) ~> (pc[p] = "done" /\ ~Holds(p))

\* All flows have ended and one of them had waited for its grant past the
\* time of its request.
C19_Witness ==
    /\ AllTerminated
    /\ Len(all_created) = spawned(scenario)
    /\ \E r \in Resources : \E k \in 1..Len(grantlog[r]) :
          /\ ~grantlog[r][k].imm
          /\ grantlog[r][k].at > reqlog[r][k].at

====
